---- MODULE Spec2Model ----
(***************************************************************************)
(* A model of cybouze8-2-googlecalendar (src/main.go): the page scraper,   *)
(* the date/time normalisation of updateEvent and updateBannerEvent, the   *)
(* login cookie scan of getAGSESSID, and the sync engine (Upsert,          *)
(* DeleteUpcomingEvents, DeleteEvent) run by main against a remote         *)
(* calendar.                                                               *)
(*                                                                         *)
(* Strings are sequences of one-character strings, so that the regular     *)
(* expressions, strconv.Atoi and fmt.Sprintf are computed and not assumed. *)
(* Instants are minutes on the proleptic Gregorian calendar in the fixed   *)
(* zone Asia/Tokyo (no daylight saving), day 0 being 1970-01-01.           *)
(***************************************************************************)
EXTENDS Integers, Sequences, FiniteSets, TLC

VARIABLES
    mainpc,      \* main's position (src/main.go:60-97)
    loginResp,   \* the login response: a request error, or the Set-Cookie header
    agsessid,    \* the session token getAGSESSID returned ("" before)
    now,         \* time.Now(), one clock reading for the runs
    page,        \* the month page: the sequence of .event / .bannerevent elements
    remote,      \* the remote calendar: event id -> event
    listed,      \* allEvents.Items of the current DeleteUpcomingEvents call
    dpc,         \* each delete goroutine's position
    dres,        \* each delete goroutine's outcome
    upc,         \* each element goroutine's position
    uevent,      \* the *calendar.Event an element goroutine built
    ures,        \* what Upsert returned to the element goroutine
    updErr,      \* the err of the Update call of the current Upsert attempt
    rl,          \* rate-limit responses the remote has given so far
    run,         \* which run of the program this is
    afterFirst,  \* the remote calendar as the first run left it
    faulty       \* whether the remote may fail for reasons of its own

vars == <<mainpc, loginResp, agsessid, now, page, remote, listed, dpc, dres,
          upc, uevent, ures, updErr, rl, run, afterFirst, faulty>>

----------------------------------------------------------------------------
(* Bounds of the model. *)

\* The remote answers "403: Rate Limit Exceeded" at most this often.
MaxRateLimits == 2

\* The program is run at most this many times in succession.
MaxRuns == 2

----------------------------------------------------------------------------
(* Characters, strconv.Atoi and fmt.Sprintf("%d"). *)

Digit == {"0", "1", "2", "3", "4", "5", "6", "7", "8", "9"}

DigitVal(c) ==
    CASE c = "0" -> 0 [] c = "1" -> 1 [] c = "2" -> 2 [] c = "3" -> 3
      [] c = "4" -> 4 [] c = "5" -> 5 [] c = "6" -> 6 [] c = "7" -> 7
      [] c = "8" -> 8 [] c = "9" -> 9

DigitChar(n) ==
    CASE n = 0 -> "0" [] n = 1 -> "1" [] n = 2 -> "2" [] n = 3 -> "3"
      [] n = 4 -> "4" [] n = 5 -> "5" [] n = 6 -> "6" [] n = 7 -> "7"
      [] n = 8 -> "8" [] n = 9 -> "9"

IsDigits(s) == \A i \in 1..Len(s) : s[i] \in Digit

\* strconv.Atoi's error: the text is empty or holds a non-digit
\* (the texts the program converts carry no sign).
AtoiErr(s) == Len(s) = 0 \/ ~IsDigits(s)

RECURSIVE AtoiDigits(_)
AtoiDigits(s) ==
    IF Len(s) = 0 THEN 0
    ELSE 10 * AtoiDigits(SubSeq(s, 1, Len(s) - 1)) + DigitVal(s[Len(s)])

\* strconv.Atoi's value: 0 with an error.
Atoi(s) == IF AtoiErr(s) THEN 0 ELSE AtoiDigits(s)

RECURSIVE ItoaNat(_)
ItoaNat(n) ==
    IF n < 10 THEN <<DigitChar(n)>>
    ELSE ItoaNat(n \div 10) \o <<DigitChar(n % 10)>>

\* fmt.Sprintf("%d", n)
Itoa(n) == IF n < 0 THEN <<"-">> \o ItoaNat(0 - n) ELSE ItoaNat(n)

\* s[i:j] of Go for 1-based i and inclusive j, empty out of range.
Sub(s, i, j) == IF i >= 1 /\ j <= Len(s) /\ i <= j THEN SubSeq(s, i, j) ELSE <<>>

HasAt(s, i, lit) == Sub(s, i, i + Len(lit) - 1) = lit /\ Len(lit) > 0

DigitAt(s, i) == i >= 1 /\ i <= Len(s) /\ s[i] \in Digit

MinOf(S) == CHOOSE x \in S : \A y \in S : x <= y

----------------------------------------------------------------------------
(* time.Date, Format and Parse. *)

MinutesPerDay == 24 * 60

\* Days from 1970-01-01 of a civil date; the month is first brought into
\* 1..12 and a day outside the month carries over, as time.Date normalises.
DaysFromCivil(year, month, day) ==
    LET m0  == month - 1
        yN  == year + (m0 \div 12)
        mN  == (m0 % 12) + 1
        y   == IF mN <= 2 THEN yN - 1 ELSE yN
        era == y \div 400
        yoe == y - era * 400
        mp  == (mN + 9) % 12
        doy == ((153 * mp + 2) \div 5) + day - 1
        doe == yoe * 365 + (yoe \div 4) - (yoe \div 100) + doy
    IN  era * 146097 + doe - 719468

\* The civil date <<year, month, day>> of a day number.
CivilFromDays(z) ==
    LET zz  == z + 719468
        era == zz \div 146097
        doe == zz - era * 146097
        yoe == (doe - (doe \div 1460) + (doe \div 36524) - (doe \div 146096)) \div 365
        y   == yoe + era * 400
        doy == doe - (365 * yoe + (yoe \div 4) - (yoe \div 100))
        mp  == (5 * doy + 2) \div 153
        d   == doy - ((153 * mp + 2) \div 5) + 1
        m   == IF mp < 10 THEN mp + 3 ELSE mp - 9
    IN  <<IF m <= 2 THEN y + 1 ELSE y, m, d>>

\* time.Date(year, month, day, hour, min, 0, 0, loc): the instant in minutes.
TimeDate(year, month, day, hour, min) ==
    DaysFromCivil(year, month, day) * MinutesPerDay + hour * 60 + min

\* t.AddDate(0, 0, days)
AddDays(t, days) == t + days * MinutesPerDay

NoText == [layout |-> "empty"]

\* t.Format(time.RFC3339): the text, kept as its fields.
FormatRFC3339(t) ==
    LET c == CivilFromDays(t \div MinutesPerDay)
        r == t % MinutesPerDay
    IN  [layout |-> "rfc3339", year |-> c[1], month |-> c[2], day |-> c[3],
         hour |-> r \div 60, min |-> r % 60]

\* t.Format("2006-01-02")
FormatDate(t) ==
    LET c == CivilFromDays(t \div MinutesPerDay)
    IN  [layout |-> "date", year |-> c[1], month |-> c[2], day |-> c[3]]

\* time.Parse(layout, text): err is set when the text is not of the layout
\* (the empty text, or a timestamp read as a plain date and the reverse).
TimeParse(layout, text) ==
    IF text.layout # layout THEN [err |-> TRUE, t |-> 0]
    ELSE IF layout = "rfc3339"
    THEN [err |-> FALSE,
          t |-> TimeDate(text.year, text.month, text.day, text.hour, text.min)]
    ELSE [err |-> FALSE, t |-> TimeDate(text.year, text.month, text.day, 0, 0)]

----------------------------------------------------------------------------
(* The regular expressions of updateEvent and updateBannerEvent.  A match  *)
(* is Go's FindStringSubmatch result shifted by one: <<>> for nil, else    *)
(* <<whole, group 1, group 2, ...>>.                                       *)

DateKey == <<"D", "a", "t", "e", "=", "d", "a", ".">>

SeidKey == <<"s", "E", "I", "D", "=">>

\* Date=da\.([\d]{4})\.([\d]{1,2})\.([\d]{1,2}) matched at position i; the
\* month takes two digits when the rest still matches, the day as many as
\* there are (at most two).
DateReAt(h, i) ==
    LET k    == i + Len(DateKey)
        mOK(mlen) == /\ \A j \in 0..(mlen - 1) : DigitAt(h, k + 5 + j)
                     /\ HasAt(h, k + 5 + mlen, <<".">>)
                     /\ DigitAt(h, k + 6 + mlen)
        mlen == IF mOK(2) THEN 2 ELSE 1
        ds   == k + 6 + mlen
        dlen == IF DigitAt(h, ds + 1) THEN 2 ELSE 1
    IN  IF /\ HasAt(h, i, DateKey)
           /\ \A j \in 0..3 : DigitAt(h, k + j)
           /\ HasAt(h, k + 4, <<".">>)
           /\ mOK(mlen)
        THEN <<Sub(h, i, ds + dlen - 1), Sub(h, k, k + 3),
               Sub(h, k + 5, k + 4 + mlen), Sub(h, ds, ds + dlen - 1)>>
        ELSE <<>>

\* re.FindStringSubmatch(href) of updateEvent: the leftmost match.
DateReFind(h) ==
    LET at == {i \in 1..Len(h) : DateReAt(h, i) # <<>>}
    IN  IF at = {} THEN <<>> ELSE DateReAt(h, MinOf(at))

RECURSIVE DigitRun(_, _)
\* The length of the run of digits of s that starts at position i.
DigitRun(s, i) == IF DigitAt(s, i) THEN 1 + DigitRun(s, i + 1) ELSE 0

\* eventIdRe.FindStringSubmatch(href), sEID=([\d]+): the leftmost match.
SeidReFind(h) ==
    LET at == {i \in 1..Len(h) :
                 HasAt(h, i, SeidKey) /\ DigitAt(h, i + Len(SeidKey))}
        i  == MinOf(at)
        k  == i + Len(SeidKey)
        n  == DigitRun(h, k)
    IN  IF at = {} THEN <<>>
        ELSE <<Sub(h, i, k + n - 1), Sub(h, k, k + n - 1)>>

\* eventTimeRe.FindStringSubmatch(title), ^(\d{2}):(\d{2})(?:-(\d{2}):(\d{2}))?
\* a group that took no part in the match is the empty text.
EventTimeReFind(t) ==
    LET hhmm(i) == /\ DigitAt(t, i) /\ DigitAt(t, i + 1) /\ HasAt(t, i + 2, <<":">>)
                   /\ DigitAt(t, i + 3) /\ DigitAt(t, i + 4)
    IN  IF ~hhmm(1) THEN <<>>
        ELSE IF HasAt(t, 6, <<"-">>) /\ hhmm(7)
        THEN <<Sub(t, 1, 11), Sub(t, 1, 2), Sub(t, 4, 5), Sub(t, 7, 8), Sub(t, 10, 11)>>
        ELSE <<Sub(t, 1, 5), Sub(t, 1, 2), Sub(t, 4, 5), <<>>, <<>>>>

\* eventTimeRe.ReplaceAllString(title, ""): the pattern is anchored, so the
\* one match at the start of the title is cut out and the rest is kept.
EventTimeReRemove(t) ==
    LET m == EventTimeReFind(t)
    IN  IF m = <<>> THEN t ELSE Sub(t, Len(m[1]) + 1, Len(t))

\* regexp ^\d+ of selectedIntValue: re.FindString(text)
LeadingDigits(t) == Sub(t, 1, DigitRun(t, 1))

----------------------------------------------------------------------------
(* Events, and what one element goroutine does before it calls Upsert.     *)

TimeZone == "Asia/Tokyo"

\* &calendar.EventDateTime{DateTime: ..., TimeZone: ...}
TimedEDT(t) == [DateTime |-> FormatRFC3339(t), Date |-> NoText, TimeZone |-> TimeZone]

\* &calendar.EventDateTime{Date: ..., TimeZone: ...}
DateEDT(t) == [DateTime |-> NoText, Date |-> FormatDate(t), TimeZone |-> TimeZone]

\* The zero calendar.Event.
NoEDT == [DateTime |-> NoText, Date |-> NoText, TimeZone |-> ""]

NoEvent == [Id |-> <<>>, Summary |-> <<>>, Start |-> NoEDT, End |-> NoEDT]

\* eventId: the sEID digits followed by fmt.Sprintf("%d%d%d", year, month, day)
EventId(seid, year, month, day) == seid \o Itoa(year) \o Itoa(month) \o Itoa(day)

\* The days updateEvent looks back: AddDate(0, 0, -7).
LookBackDays == 7

\* updateEvent up to its call of Upsert.  out is "panic" (an index out of
\* range on a nil match), "return" (an early return) or "upsert" with the
\* event handed to Upsert.
updateEvent(el, clock) ==
    LET matches  == DateReFind(el.href)
        year     == Atoi(matches[2])
        month    == Atoi(matches[3])
        day      == Atoi(matches[4])
        err      == AtoiErr(matches[4])
        dateTime == TimeDate(year, month, day, 0, 0)
        idm      == SeidReFind(el.href)
        eventId  == EventId(idm[2], year, month, day)
        eventTime == EventTimeReFind(el.title)
        title    == EventTimeReRemove(el.title)
        startHour == Atoi(eventTime[2])
        startMin  == Atoi(eventTime[3])
        endHour  == IF AtoiErr(eventTime[4]) THEN startHour + 1 ELSE Atoi(eventTime[4])
        endMin   == IF AtoiErr(eventTime[5]) THEN startMin ELSE Atoi(eventTime[5])
        startDate == TimeDate(year, month, day, startHour, startMin)
        endDate  == TimeDate(year, month, day, endHour, endMin)
    IN  IF matches = <<>> THEN [out |-> "panic", event |-> NoEvent]
        ELSE IF err THEN [out |-> "return", event |-> NoEvent]
        ELSE IF dateTime < AddDays(clock, 0 - LookBackDays)
        THEN [out |-> "return", event |-> NoEvent]
        ELSE IF idm = <<>> THEN [out |-> "panic", event |-> NoEvent]
        ELSE IF Len(eventTime) = 5
        THEN [out |-> "upsert",
              event |-> [Id |-> eventId, Summary |-> title,
                         Start |-> TimedEDT(startDate), End |-> TimedEDT(endDate)]]
        ELSE [out |-> "upsert",
              event |-> [Id |-> eventId, Summary |-> title,
                         Start |-> DateEDT(dateTime), End |-> DateEDT(dateTime)]]

\* The six dropdowns of the banner's modify page, in the order they are read.
DropdownNames ==
    <<"SetDate.Year", "SetDate.Month", "SetDate.Day",
      "EndDate.Year", "EndDate.Month", "EndDate.Day">>

NotSelected == <<"<none>">>

\* selectedIntValue(doc, name): the number the selected option's text starts
\* with, and an error when no option of the dropdown is selected.
selectedIntValue(doc, name) ==
    IF doc[name] = NotSelected THEN [err |-> TRUE, val |-> 0]
    ELSE [err |-> FALSE, val |-> Atoi(LeadingDigits(doc[name]))]

\* updateBannerEvent up to its call of Upsert.  Each selectedIntValue call
\* assigns err anew; the err tested is the one of the last call.
updateBannerEvent(el) ==
    LET doc        == el.doc
        startYear  == selectedIntValue(doc, DropdownNames[1])
        startMonth == selectedIntValue(doc, DropdownNames[2])
        startDay   == selectedIntValue(doc, DropdownNames[3])
        endYear    == selectedIntValue(doc, DropdownNames[4])
        endMonth   == selectedIntValue(doc, DropdownNames[5])
        endDay     == selectedIntValue(doc, DropdownNames[6])
        err        == endDay.err
        startDateTime == TimeDate(startYear.val, startMonth.val, startDay.val, 0, 0)
        endDateTime   == TimeDate(endYear.val, endMonth.val, endDay.val, 0, 0)
        idm        == SeidReFind(el.href)
        eventId    == EventId(idm[2], startYear.val, startMonth.val, startDay.val)
    IN  IF el.fetchErr THEN [out |-> "return", event |-> NoEvent]
        ELSE IF err THEN [out |-> "return", event |-> NoEvent]
        ELSE IF idm = <<>> THEN [out |-> "panic", event |-> NoEvent]
        ELSE [out |-> "upsert",
              event |-> [Id |-> eventId, Summary |-> el.title,
                         Start |-> DateEDT(startDateTime),
                         End |-> DateEDT(endDateTime)]]

\* What the goroutine of one page element does first.
ElementPlan(el, clock) ==
    IF el.kind = "event" THEN updateEvent(el, clock) ELSE updateBannerEvent(el)

----------------------------------------------------------------------------
(* getAGSESSID: the scan of the login response's Set-Cookie header.        *)

AgsessidKey == <<"A", "G", "S", "E", "S", "S", "I", "D">>

\* A login request that failed, and a response with its Set-Cookie header.
RequestError == [err |-> TRUE, header |-> <<>>]

Response(header) == [err |-> FALSE, header |-> header]

\* The position of the first sep in s, 0 when there is none.
IndexOf(s, sep) ==
    LET at == {i \in 1..Len(s) : s[i] = sep}
    IN  IF at = {} THEN 0 ELSE MinOf(at)

RECURSIVE Split(_, _)
\* strings.Split(s, sep): the empty text splits into one empty segment.
Split(s, sep) ==
    LET i == IndexOf(s, sep)
    IN  IF i = 0 THEN <<s>>
        ELSE <<Sub(s, 1, i - 1)>> \o Split(Sub(s, i + 1, Len(s)), sep)

\* strings.SplitN(s, sep, 2): one part when s holds no sep.
SplitN2(s, sep) ==
    LET i == IndexOf(s, sep)
    IN  IF i = 0 THEN <<s>> ELSE <<Sub(s, 1, i - 1), Sub(s, i + 1, Len(s))>>

RECURSIVE ScanCookies(_, _)
\* The loop over the cookies from the i-th on: pair[1] of a one-part pair
\* is an index out of range.
ScanCookies(cookies, i) ==
    IF i > Len(cookies) THEN [out |-> "error", v |-> <<>>]
    ELSE LET pair == SplitN2(cookies[i], "=")
         IN  IF Len(pair) < 2 THEN [out |-> "panic", v |-> <<>>]
             ELSE IF pair[1] = AgsessidKey THEN [out |-> "ok", v |-> pair[2]]
             ELSE ScanCookies(cookies, i + 1)

\* getAGSESSID(): out is "ok" with the token v, "error", or "panic".
getAGSESSID(resp) ==
    IF resp.err THEN [out |-> "error", v |-> <<>>]
    ELSE ScanCookies(Split(resp.header, ";"), 1)

----------------------------------------------------------------------------
(* The remote calendar and what its calls answer.                          *)

EmptyCalendar == [id \in {} |-> NoEvent]

Put(cal, ev) ==
    [id \in DOMAIN cal \cup {ev.Id} |-> IF id = ev.Id THEN ev ELSE cal[id]]

Remove(cal, gone) == [id \in DOMAIN cal \ {gone} |-> cal[id]]

\* "403: Rate Limit Exceeded", which any call may answer while the bound lasts.
RateLimited == IF rl < MaxRateLimits THEN {"rateLimit"} ELSE {}

\* Any other failure of the remote's own.
OtherError == IF faulty THEN {"error"} ELSE {}

\* Events.List(calendarId).Do()
ListResponses == {"ok"} \cup OtherError

\* Events.Update(calendarId, id, event).Do()
UpdateResponses(id) ==
    (IF id \in DOMAIN remote THEN {"ok"} ELSE {"notFound"})
        \cup RateLimited \cup OtherError

\* Events.Insert(calendarId, event).Do()
InsertResponses(id) ==
    (IF id \in DOMAIN remote THEN {"conflict"} ELSE {"ok"})
        \cup RateLimited \cup OtherError

\* Events.Delete(calendarId, id).Do()
DeleteResponses(id) ==
    (IF id \in DOMAIN remote THEN {"ok"} ELSE {"notFound"})
        \cup RateLimited \cup OtherError

\* regexp.MatchString("403: Rate Limit Exceeded", err.Error())
rateLimitExeeded(r) == r = "rateLimit"

CountRateLimit(r) == IF r = "rateLimit" THEN rl + 1 ELSE rl

----------------------------------------------------------------------------
(* main and its goroutines.                                                *)

\* The process runs: it has neither exited nor died of a panic.
Alive == mainpc \notin {"finished", "fatal", "crashed"}

Elements == 1..Len(page)

\* main, lines 67-74: the login; the page is the one fetched.
Login ==
    /\ mainpc = "getAGSESSID"
    /\ LET r == getAGSESSID(loginResp)
       IN  /\ mainpc' = CASE r.out = "ok" -> "DeleteUpcomingEvents"
                          [] r.out = "error" -> "fatal"
                          [] r.out = "panic" -> "crashed"
           /\ agsessid' = r.v
    /\ UNCHANGED <<loginResp, now, page, remote, listed, dpc, dres, upc, uevent,
                   ures, updErr, rl, run, afterFirst, faulty>>

\* tommorow := time.Now().AddDate(0, 0, 1)
tommorow == AddDays(now, 1)

\* The two tests of a delete goroutine that make it return: the start read
\* as a timestamp, then the same field read as a plain date.
ReturnsEarly(item) ==
    LET startTime == TimeParse("rfc3339", item.Start.DateTime)
        startDate == TimeParse("date", item.Start.DateTime)
    IN  \/ (~startTime.err /\ startTime.t < tommorow)
        \/ (~startDate.err /\ startDate.t < tommorow)

\* DeleteUpcomingEvents up to waitGroup.Wait(): the list, and one goroutine
\* started per item; a failed list returns the error, which main drops.
DeleteList ==
    /\ mainpc = "DeleteUpcomingEvents"
    /\ \E r \in ListResponses :
         IF r = "ok"
         THEN /\ listed' = remote
              /\ dpc' = [id \in DOMAIN remote |-> "start"]
              /\ dres' = [id \in DOMAIN remote |-> "none"]
              /\ mainpc' = "deleteWait"
         ELSE /\ mainpc' = "update"
              /\ UNCHANGED <<listed, dpc, dres>>
    /\ UNCHANGED <<loginResp, agsessid, now, page, remote, upc, uevent, ures,
                   updErr, rl, run, afterFirst, faulty>>

\* A delete goroutine from its start to its call of DeleteEvent.
DeleteTask(id) ==
    /\ Alive
    /\ id \in DOMAIN dpc
    /\ dpc[id] = "start"
    /\ IF ReturnsEarly(listed[id])
       THEN /\ dpc' = [dpc EXCEPT ![id] = "done"]
            /\ dres' = [dres EXCEPT ![id] = "kept"]
       ELSE /\ dpc' = [dpc EXCEPT ![id] = "delete"]
            /\ UNCHANGED dres
    /\ UNCHANGED <<mainpc, loginResp, agsessid, now, page, remote, listed, upc,
                   uevent, ures, updErr, rl, run, afterFirst, faulty>>

\* DeleteEvent: the Delete call; a rate limit sleeps and calls again, any
\* other error is returned and logged.
DeleteEvent(id) ==
    /\ Alive
    /\ id \in DOMAIN dpc
    /\ dpc[id] = "delete"
    /\ \E r \in DeleteResponses(id) :
         /\ rl' = CountRateLimit(r)
         /\ IF r = "ok"
            THEN /\ remote' = Remove(remote, id)
                 /\ dpc' = [dpc EXCEPT ![id] = "done"]
                 /\ dres' = [dres EXCEPT ![id] = "deleted"]
            ELSE IF rateLimitExeeded(r)
            THEN /\ dpc' = [dpc EXCEPT ![id] = "sleep"]
                 /\ UNCHANGED <<remote, dres>>
            ELSE /\ dpc' = [dpc EXCEPT ![id] = "done"]
                 /\ dres' = [dres EXCEPT ![id] = "failed"]
                 /\ UNCHANGED remote
    /\ UNCHANGED <<mainpc, loginResp, agsessid, now, page, listed, upc, uevent,
                   ures, updErr, run, afterFirst, faulty>>

\* time.Sleep(10 * time.Second) of DeleteEvent is over.
DeleteRetry(id) ==
    /\ Alive
    /\ id \in DOMAIN dpc
    /\ dpc[id] = "sleep"
    /\ dpc' = [dpc EXCEPT ![id] = "delete"]
    /\ UNCHANGED <<mainpc, loginResp, agsessid, now, page, remote, listed, dres,
                   upc, uevent, ures, updErr, rl, run, afterFirst, faulty>>

\* DeleteUpcomingEvents without its waitGroup.Wait(): it returns at once.
DeleteBarrierDropped == TRUE

\* waitGroup.Wait() of DeleteUpcomingEvents
DeleteBarrier == \A id \in DOMAIN dpc : dpc[id] = "done"

\* DeleteUpcomingEvents returns to main.
DeleteWait ==
    /\ mainpc = "deleteWait"
    /\ DeleteBarrier
    /\ mainpc' = "update"
    /\ UNCHANGED <<loginResp, agsessid, now, page, remote, listed, dpc, dres,
                   upc, uevent, ures, updErr, rl, run, afterFirst, faulty>>

\* The two Each loops of main: one goroutine per element.
SpawnAll ==
    /\ mainpc = "update"
    /\ upc' = [i \in Elements |-> "start"]
    /\ mainpc' = "wait"
    /\ UNCHANGED <<loginResp, agsessid, now, page, remote, listed, dpc, dres,
                   uevent, ures, updErr, rl, run, afterFirst, faulty>>

\* An element goroutine up to its call of Upsert; a panic ends the process.
ElementStart(i) ==
    /\ Alive
    /\ upc[i] = "start"
    /\ LET plan == ElementPlan(page[i], now)
       IN  CASE plan.out = "panic" ->
                  /\ mainpc' = "crashed"
                  /\ UNCHANGED <<upc, uevent, ures>>
             [] plan.out = "return" ->
                  /\ upc' = [upc EXCEPT ![i] = "done"]
                  /\ ures' = [ures EXCEPT ![i] = "skipped"]
                  /\ UNCHANGED <<mainpc, uevent>>
             [] plan.out = "upsert" ->
                  /\ upc' = [upc EXCEPT ![i] = "update"]
                  /\ uevent' = [uevent EXCEPT ![i] = plan.event]
                  /\ UNCHANGED <<mainpc, ures>>
    /\ UNCHANGED <<loginResp, agsessid, now, page, remote, listed, dpc, dres,
                   updErr, rl, run, afterFirst, faulty>>

\* Upsert, line 129: the Update call; on any error the Insert call follows.
UpsertUpdate(i) ==
    /\ Alive
    /\ upc[i] = "update"
    /\ \E r \in UpdateResponses(uevent[i].Id) :
         /\ rl' = CountRateLimit(r)
         /\ updErr' = [updErr EXCEPT ![i] = r]
         /\ IF r = "ok"
            THEN /\ remote' = Put(remote, uevent[i])
                 /\ upc' = [upc EXCEPT ![i] = "done"]
                 /\ ures' = [ures EXCEPT ![i] = "ok"]
            ELSE /\ upc' = [upc EXCEPT ![i] = "insert"]
                 /\ UNCHANGED <<remote, ures>>
    /\ UNCHANGED <<mainpc, loginResp, agsessid, now, page, listed, dpc, dres,
                   uevent, run, afterFirst, faulty>>

\* Upsert, lines 131-140: the Insert call; a rate limit sleeps and calls
\* Upsert again, any other error is returned.
UpsertInsert(i) ==
    /\ Alive
    /\ upc[i] = "insert"
    /\ \E r \in InsertResponses(uevent[i].Id) :
         /\ rl' = CountRateLimit(r)
         /\ IF r = "ok"
            THEN /\ remote' = Put(remote, uevent[i])
                 /\ upc' = [upc EXCEPT ![i] = "done"]
                 /\ ures' = [ures EXCEPT ![i] = "ok"]
            ELSE IF rateLimitExeeded(r)
            THEN /\ upc' = [upc EXCEPT ![i] = "sleep"]
                 /\ UNCHANGED <<remote, ures>>
            ELSE /\ upc' = [upc EXCEPT ![i] = "done"]
                 /\ ures' = [ures EXCEPT ![i] = "error"]
                 /\ UNCHANGED remote
    /\ UNCHANGED <<mainpc, loginResp, agsessid, now, page, listed, dpc, dres,
                   uevent, updErr, run, afterFirst, faulty>>

\* time.Sleep(10 * time.Second) of Upsert is over: return this.Upsert(event)
UpsertRetry(i) ==
    /\ Alive
    /\ upc[i] = "sleep"
    /\ upc' = [upc EXCEPT ![i] = "update"]
    /\ updErr' = [updErr EXCEPT ![i] = "none"]
    /\ UNCHANGED <<mainpc, loginResp, agsessid, now, page, remote, listed, dpc,
                   dres, uevent, ures, rl, run, afterFirst, faulty>>

\* waitGroup.Wait() of main
UpsertBarrier == \A i \in Elements : upc[i] = "done"

\* main logs its finish and the process exits.
Finish ==
    /\ mainpc = "wait"
    /\ UpsertBarrier
    /\ mainpc' = "finished"
    /\ afterFirst' = IF run = 1 THEN remote ELSE afterFirst
    /\ UNCHANGED <<loginResp, agsessid, now, page, remote, listed, dpc, dres,
                   upc, uevent, ures, updErr, rl, run, faulty>>

\* The program is started again on the same page, clock and calendar.
Rerun ==
    /\ mainpc = "finished"
    /\ run < MaxRuns
    /\ run' = run + 1
    /\ mainpc' = "getAGSESSID"
    /\ agsessid' = <<>>
    /\ listed' = EmptyCalendar
    /\ dpc' = EmptyCalendar
    /\ dres' = EmptyCalendar
    /\ upc' = [i \in Elements |-> "idle"]
    /\ uevent' = [i \in Elements |-> NoEvent]
    /\ ures' = [i \in Elements |-> "none"]
    /\ updErr' = [i \in Elements |-> "none"]
    /\ UNCHANGED <<loginResp, now, page, remote, rl, afterFirst, faulty>>

----------------------------------------------------------------------------
(* The inputs: page elements, login responses and calendars.               *)

Pad2(n) == IF n < 10 THEN <<"0">> \o Itoa(n) ELSE Itoa(n)

\* "HH:MM"
ClockText(h, m) == Pad2(h) \o <<":">> \o Pad2(m)

\* "HH:MM-HH:MM"
RangeText(r) == ClockText(r[1], r[2]) \o <<"-">> \o ClockText(r[3], r[4])

\* "<time prefix> <rest>"
TitleOf(prefix, rest) == prefix \o <<" ">> \o rest

Lunch == <<"L", "u", "n", "c", "h">>

Foo == <<"F", "o", "o">>

Trip == <<"T", "r", "i", "p">>

Old == <<"O", "l", "d">>

\* "Date=da.Y.M.D" as the source system writes it, for d = <<Y, M, D>>.
DateTok(d) == DateKey \o Itoa(d[1]) \o <<".">> \o Itoa(d[2]) \o <<".">> \o Itoa(d[3])

\* "sEID=<digits>"
SeidTok(digits) == SeidKey \o digits

NoTok == <<>>

\* An anchor's href: a query string of the two tokens.
MkHref(dateTok, seidTok) ==
    <<"?", "p", "=", "V", "&">> \o dateTok \o <<"&">> \o seidTok \o <<"&", "C", "P">>

\* A .event element; it has no modify page.
EventElem(href, title) ==
    [kind |-> "event", href |-> href, title |-> title, fetchErr |-> TRUE,
     doc |-> [n \in {} |-> NotSelected]]

\* A .bannerevent element with its modify page, or with the fetch of it failing.
BannerElem(href, title, fetchErr, doc) ==
    [kind |-> "banner", href |-> href, title |-> title, fetchErr |-> fetchErr,
     doc |-> doc]

DropdownNameSet == {DropdownNames[k] : k \in 1..Len(DropdownNames)}

\* The text of the selected option of each dropdown of a banner that runs
\* from 2016-03-20 to 2016-03-22: the number and a unit sign.
OptionText(name) ==
    CASE name = "SetDate.Year"  -> Itoa(2016) \o <<"y">>
      [] name = "SetDate.Month" -> Itoa(3) \o <<"m">>
      [] name = "SetDate.Day"   -> Itoa(20) \o <<"d">>
      [] name = "EndDate.Year"  -> Itoa(2016) \o <<"y">>
      [] name = "EndDate.Month" -> Itoa(3) \o <<"m">>
      [] name = "EndDate.Day"   -> Itoa(22) \o <<"d">>

\* The modify page on which exactly the dropdowns of S have a selected option.
DocWith(S) ==
    [n \in DropdownNameSet |-> IF n \in S THEN OptionText(n) ELSE NotSelected]

FullDoc == DocWith(DropdownNameSet)

\* A timed or an all-day event of the calendar.
TimedEvent(id, title, d, r) ==
    [Id |-> id, Summary |-> title,
     Start |-> TimedEDT(TimeDate(d[1], d[2], d[3], r[1], r[2])),
     End |-> TimedEDT(TimeDate(d[1], d[2], d[3], r[3], r[4]))]

AllDayEvent(id, title, d) ==
    [Id |-> id, Summary |-> title,
     Start |-> DateEDT(TimeDate(d[1], d[2], d[3], 0, 0)),
     End |-> DateEDT(TimeDate(d[1], d[2], d[3], 0, 0))]

CalendarOf(events) == [id \in {e.Id : e \in events} |->
                         CHOOSE e \in events : e.Id = id]

\* The clock of the sync runs: 2016-03-15 10:00.
Today == <<2016, 3, 15>>

Yesterday == <<2016, 3, 14>>

NextWeek == <<2016, 3, 22>>

LastMonth == <<2016, 2, 1>>

SyncNow == TimeDate(Today[1], Today[2], Today[3], 10, 0)

LunchElem ==
    EventElem(MkHref(DateTok(Today), SeidTok(<<"5">>)),
              TitleOf(RangeText(<<14, 0, 15, 30>>), Lunch))

SyncPages ==
    { <<LunchElem, EventElem(MkHref(DateTok(NextWeek), SeidTok(<<"6">>)), Trip)>>,
      <<LunchElem, EventElem(MkHref(NoTok, SeidTok(<<"7">>)), Foo)>>,
      <<EventElem(MkHref(DateTok(LastMonth), SeidTok(<<"4">>)), Old),
        BannerElem(MkHref(NoTok, SeidTok(<<"8">>)), Trip, FALSE, FullDoc)>> }

\* The id updateEvent gives LunchElem.
LunchId == EventId(<<"5">>, Today[1], Today[2], Today[3])

SyncCalendars ==
    { EmptyCalendar,
      CalendarOf({TimedEvent(<<"9", "1">>, Old, Yesterday, <<9, 0, 10, 0>>),
                  TimedEvent(<<"9", "2">>, Old, Today, <<18, 0, 19, 0>>),
                  TimedEvent(<<"9", "3">>, Old, NextWeek, <<9, 0, 10, 0>>)}),
      CalendarOf({AllDayEvent(<<"9", "1">>, Old, Yesterday),
                  AllDayEvent(<<"9", "2">>, Old, Today),
                  AllDayEvent(<<"9", "3">>, Old, NextWeek)}),
      CalendarOf({TimedEvent(LunchId, Old, Today, <<14, 0, 15, 0>>)}) }

GoodCookie == AgsessidKey \o <<"=", "a", "b">>

SyncLoginResponses ==
    {Response(GoodCookie \o <<";", " ", "p", "=", "/">>), RequestError}

\* The fields every specification starts with: nothing listed, no goroutine.
Fresh ==
    /\ listed = EmptyCalendar
    /\ dpc = EmptyCalendar
    /\ dres = EmptyCalendar
    /\ uevent = [i \in Elements |-> NoEvent]
    /\ ures = [i \in Elements |-> "none"]
    /\ updErr = [i \in Elements |-> "none"]
    /\ rl = 0
    /\ run = 1
    /\ afterFirst = EmptyCalendar

\* The program at its start.
Init ==
    /\ mainpc = "getAGSESSID"
    /\ loginResp \in SyncLoginResponses
    /\ agsessid = <<>>
    /\ now = SyncNow
    /\ page \in SyncPages
    /\ remote \in SyncCalendars
    /\ faulty \in BOOLEAN
    /\ upc = [i \in Elements |-> "idle"]
    /\ Fresh

Next ==
    \/ Login
    \/ DeleteList
    \/ \E id \in DOMAIN dpc : DeleteTask(id)
    \/ \E id \in DOMAIN dpc : DeleteEvent(id)
    \/ \E id \in DOMAIN dpc : DeleteRetry(id)
    \/ DeleteWait
    \/ SpawnAll
    \/ \E i \in Elements : ElementStart(i)
    \/ \E i \in Elements : UpsertUpdate(i)
    \/ \E i \in Elements : UpsertInsert(i)
    \/ \E i \in Elements : UpsertRetry(i)
    \/ Finish
    \/ Rerun

Spec == Init /\ [][Next]_vars

----------------------------------------------------------------------------
(* updateEvent on its own: two .event elements, their goroutines started.  *)

\* The clock of the normalisation runs: 2016-01-10 10:00.
NormNow == TimeDate(2016, 1, 10, 10, 0)

NormDates == {<<2016, 1, 11>>, <<2016, 11, 1>>, <<2016, 1, 4>>, <<2016, 1, 3>>}

NormSeids == {<<"5">>, <<"5", "2">>}

NormHrefs ==
    {MkHref(DateTok(d), SeidTok(sd)) : d \in NormDates, sd \in NormSeids}
        \cup {MkHref(NoTok, SeidTok(<<"5">>)), MkHref(DateTok(<<2016, 1, 11>>), NoTok)}

NormRanges == {<<14, 0, 15, 30>>, <<10, 0, 9, 0>>, <<9, 5, 9, 5>>}

NormRests == {Lunch, Foo}

NormTitles ==
    {TitleOf(RangeText(r), rest) : r \in NormRanges, rest \in NormRests}
        \cup {TitleOf(ClockText(9, 0), Foo), TitleOf(ClockText(23, 30), Foo),
              RangeText(<<14, 0, 15, 30>>) \o Lunch, Lunch,
              <<"9", ":", "0", "0", " ">> \o Foo}

NormPages ==
    { <<EventElem(h1, t1), EventElem(h2, Lunch)>> :
        h1 \in NormHrefs, t1 \in NormTitles,
        h2 \in {MkHref(DateTok(d), SeidTok(<<"5">>)) : d \in NormDates} }

InitNormalize ==
    /\ mainpc = "wait"
    /\ loginResp = Response(GoodCookie)
    /\ agsessid = <<"a", "b">>
    /\ now = NormNow
    /\ page \in NormPages
    /\ remote = EmptyCalendar
    /\ faulty = FALSE
    /\ upc = [i \in Elements |-> "start"]
    /\ Fresh

NextNormalize == \E i \in Elements : ElementStart(i)

SpecNormalize == InitNormalize /\ [][NextNormalize]_vars

----------------------------------------------------------------------------
(* updateBannerEvent on its own: one .bannerevent element and its upsert.  *)

BannerDocs == {DocWith(S) : S \in SUBSET DropdownNameSet}

BannerHrefs == {MkHref(NoTok, SeidTok(<<"8">>)), MkHref(NoTok, NoTok)}

BannerPages ==
    { <<BannerElem(h, Trip, FALSE, doc)>> : h \in BannerHrefs, doc \in BannerDocs }
        \cup { <<BannerElem(h, Trip, TRUE, DocWith({}))>> : h \in BannerHrefs }

InitBanner ==
    /\ mainpc = "wait"
    /\ loginResp = Response(GoodCookie)
    /\ agsessid = <<"a", "b">>
    /\ now = SyncNow
    /\ page \in BannerPages
    /\ remote = EmptyCalendar
    /\ faulty \in BOOLEAN
    /\ upc = [i \in Elements |-> "start"]
    /\ Fresh

NextBanner ==
    \/ \E i \in Elements : ElementStart(i)
    \/ \E i \in Elements : UpsertUpdate(i)
    \/ \E i \in Elements : UpsertInsert(i)
    \/ \E i \in Elements : UpsertRetry(i)
    \/ Finish

SpecBanner == InitBanner /\ [][NextBanner]_vars

----------------------------------------------------------------------------
(* getAGSESSID on its own: the login against every response.               *)

CookieSegments ==
    { GoodCookie, <<"x", "=", "1">>, <<"H", "t", "t", "p", "O", "n", "l", "y">>,
      <<>>, <<" ">> \o GoodCookie, <<" ", "p", "=", "/">> }

\* The headers of one to three segments, joined by ";".
LoginHeaders ==
    CookieSegments
      \cup {a \o <<";">> \o b : a \in CookieSegments, b \in CookieSegments}
      \cup {a \o <<";">> \o b \o <<";">> \o c :
              a \in CookieSegments, b \in CookieSegments, c \in CookieSegments}

InitLogin ==
    /\ mainpc = "getAGSESSID"
    /\ loginResp \in {Response(h) : h \in LoginHeaders} \cup {RequestError}
    /\ agsessid = <<>>
    /\ now = SyncNow
    /\ page = <<>>
    /\ remote = EmptyCalendar
    /\ faulty = FALSE
    /\ upc = [i \in Elements |-> "idle"]
    /\ Fresh

NextLogin == Login

SpecLogin == InitLogin /\ [][NextLogin]_vars

----------------------------------------------------------------------------
(* The claims.                                                             *)

\* The start of a calendar event as an instant, whichever way it is given:
\* as a zoned timestamp (Start.DateTime) or as a plain date (Start.Date).
StartInstant(ev) ==
    IF ev.Start.DateTime.layout = "rfc3339"
    THEN TimeParse("rfc3339", ev.Start.DateTime).t
    ELSE TimeParse("date", ev.Start.Date).t

IsTimed(ev) == ev.Start.DateTime.layout = "rfc3339"

\* C1: DeleteUpcomingEvents leaves a listed event alone if and only if its
\* start, given as a zoned timestamp or as a plain (all-day) date, is before
\* the boundary of the sync window; it goes on to delete every other one.
C1_PruneByStart ==
    \A id \in DOMAIN dpc :
        dpc[id] = "done" =>
            (dres[id] = "kept" <=> StartInstant(listed[id]) < tommorow)

\* C2: whenever the update call or the insert call of Upsert reports a rate
\* limit, Upsert waits and retries instead of returning: no Upsert has
\* returned from an attempt whose update call reported a rate limit.
C2_RetryOnRateLimit ==
    \A i \in Elements :
        (upc[i] = "done" /\ ures[i] \in {"ok", "error"})
            => ~rateLimitExeeded(updErr[i])

\* C3: a second run on the same page and clock leaves the calendar as the
\* first run left it: the same ids, the same content per id.  Stated for the
\* runs most favourable to the claim, in which the remote never fails for a
\* reason of its own (it limits the rate, and answers not-found and conflict).
C3_SecondRunChangesNothing ==
    (~faulty /\ run = 2 /\ mainpc = "finished") => remote = afterFirst

\* C4: every timed event handed to Upsert ends no earlier than it starts.
C4_EndNotBeforeStart ==
    \A i \in Elements :
        (upc[i] = "update" /\ IsTimed(uevent[i])) =>
            TimeParse("rfc3339", uevent[i].End.DateTime).t
                >= TimeParse("rfc3339", uevent[i].Start.DateTime).t

\* C5: an element whose href lacks the date token or the source-event-id
\* token is skipped: no element ends the process, so that its siblings and
\* main run on.
C5_BadHrefSkipped == mainpc # "crashed"

\* The timestamp text of date d at h:m.
StampOf(d, h, m) ==
    [layout |-> "rfc3339", year |-> d[1], month |-> d[2], day |-> d[3],
     hour |-> h, min |-> m]

\* The plain-date text of date d.
DateOf(d) == [layout |-> "date", year |-> d[1], month |-> d[2], day |-> d[3]]

\* C6: a title "HH:MM-HH:MM <rest>" gives a timed event on the href's date,
\* from the first time to the second, titled <rest> alone; a title with no
\* leading time gives an all-day event on the href's date, its title unchanged.
C6_TitleAndTimes ==
    \A i \in Elements : \A d \in NormDates : \A sd \in NormSeids :
        (upc[i] = "update" /\ page[i].href = MkHref(DateTok(d), SeidTok(sd))) =>
            /\ \A r \in NormRanges : \A rest \in NormRests :
                 page[i].title = TitleOf(RangeText(r), rest) =>
                    /\ uevent[i].Start.DateTime = StampOf(d, r[1], r[2])
                    /\ uevent[i].End.DateTime = StampOf(d, r[3], r[4])
                    /\ uevent[i].Summary = rest
            /\ page[i].title = Lunch =>
                    /\ uevent[i].Start.Date = DateOf(d)
                    /\ uevent[i].End.Date = DateOf(d)
                    /\ uevent[i].Summary = Lunch

\* Upsert has been called for element i.
UpsertCalled(i) == upc[i] \in {"update", "insert", "sleep"} \/ ures[i] \in {"ok", "error"}

\* C7: a banner event is upserted only if the modify page was fetched and
\* all six dropdowns have a selected option.
C7_AllSixResolved ==
    \A i \in Elements :
        (page[i].kind = "banner" /\ UpsertCalled(i)) =>
            /\ ~page[i].fetchErr
            /\ \A n \in DropdownNameSet : page[i].doc[n] # NotSelected

\* No ";"-delimited segment of the header is an AGSESSID=<value> pair.
NoAgsessidPair(resp) ==
    \/ resp.err
    \/ LET cookies == Split(resp.header, ";")
       IN  \A k \in 1..Len(cookies) : ~HasAt(cookies[k], 1, AgsessidKey \o <<"=">>)

\* C8: when the login request errors or the Set-Cookie header holds no
\* AGSESSID pair, getAGSESSID returns an error: main stops with its fatal
\* log line, with neither a token nor a panic.
C8_LoginErrorNoCrash ==
    (mainpc # "getAGSESSID" /\ NoAgsessidPair(loginResp)) => mainpc = "fatal"

\* C9: in a run, no element goroutine has started before every delete
\* goroutine is done; an event upserted in the run is still on the calendar;
\* and main finishes only when every element goroutine is done.
C9_Barriers ==
    /\ (\E i \in Elements : upc[i] # "idle") =>
            \A id \in DOMAIN dpc : dpc[id] = "done"
    /\ \A i \in Elements : ures[i] = "ok" => uevent[i].Id \in DOMAIN remote
    /\ mainpc = "finished" => \A i \in Elements : upc[i] = "done"

\* C9's case: a delete goroutine was rate limited and has deleted its event,
\* and an element goroutine is at its Update call while another has
\* upserted.
C9_Witness ==
    /\ run = 1
    /\ rl > 0
    /\ \E id \in DOMAIN dpc : dres[id] = "deleted"
    /\ \E i \in Elements : upc[i] = "update"
    /\ \E i \in Elements : ures[i] = "ok"

\* The source event and date of an .event element: (sourceID, year, month, day).
SourceKey(el) ==
    <<SeidReFind(el.href)[2], Atoi(DateReFind(el.href)[2]),
      Atoi(DateReFind(el.href)[3]), Atoi(DateReFind(el.href)[4])>>

\* C10: two elements that differ in (sourceID, year, month, day) never get
\* the same event id.
C10_IdInjective ==
    \A i \in Elements : \A j \in Elements :
        (upc[i] = "update" /\ upc[j] = "update"
            /\ SourceKey(page[i]) # SourceKey(page[j]))
          => uevent[i].Id # uevent[j].Id

====
